---- MODULE Spec2Model ----
(***************************************************************************)
(* Model of hexegic.cpp: the command-line program `rotate`, which writes   *)
(* its input file rotated by one bit (left or right) to its output file.   *)
(*                                                                         *)
(* The state is the program's: argv, the file system, the two file         *)
(* streams, the locals of rotate(), and the position of main()/rotate().   *)
(* One action per statement group of main() and per loop iteration of      *)
(* rotate().                                                               *)
(***************************************************************************)
EXTENDS Integers, Sequences, FiniteSets, TLC

VARIABLES
  pc,              \* position in main() / rotate()
  argv,            \* argv[1..argc-1]: <<instruction, in-file, out-file>>
  files,           \* the file system: path -> bytes, or NoFile
  instruction,     \* std::optional<Instruction> of main(): "nullopt", "LEFT", "RIGHT"
  input,           \* std::ifstream: [is_open, pos, eofbit, failbit]
  output,          \* std::ofstream: [is_open]
  start_position,  \* rotate(): const auto start_position
  end_position,    \* rotate(): const auto end_position
  i,               \* rotate(): the loop counter, `int i`
  first_bit,       \* rotate(), LEFT: const uint8_t first_bit
  saved_bit,       \* rotate(), RIGHT: uint8_t saved_bit
  w,               \* width in bits of `int` on the build
  ub,              \* outcome the build gives signed overflow of i: "none" until it happens
  exit_code,       \* "running", "EXIT_SUCCESS", "EXIT_FAILURE"
  err,             \* last ERROR line written to std::cerr ("" when none)
  rotate_calls,    \* number of calls of rotate() so far
  iters,           \* loop iterations of the current call of rotate()
  plan,            \* directions of the calls still to be made after this one
  orig,            \* the bytes given to the first call of rotate()
  files0,          \* the file system when the program started
  done             \* directions of the calls of rotate() that have returned

vars == <<pc, argv, files, instruction, input, output, start_position,
          end_position, i, first_bit, saved_bit, w, ub, exit_code, err,
          rotate_calls, iters, plan, orig, files0, done>>

-----------------------------------------------------------------------------
(* Bounds of the model *)

\* longest input file, in bytes
MaxLen == 3
\* width of `int` in the scaled-down build used to reach the counter's maximum
SmallIntBits == 3
\* iterations a loop may run beyond end_position before the model stops following it
MaxOverrun == 2

\* width of `int` on the program's platforms (the type of i)
IntBits == 32

-----------------------------------------------------------------------------
(* 8-bit unsigned arithmetic: uint8_t, std::rotl, std::rotr, &, | *)

Bit(x, k) == (x \div (2^k)) % 2

And8(a, b) ==
  LET f[k \in 0..8] == IF k = 8 THEN 0 ELSE Bit(a, k) * Bit(b, k) * (2^k) + f[k+1]
  IN  f[0]

Or8(a, b) ==
  LET f[k \in 0..8] ==
        IF k = 8 THEN 0
        ELSE (IF Bit(a, k) + Bit(b, k) > 0 THEN 2^k ELSE 0) + f[k+1]
  IN  f[0]

\* std::rotl on a uint8_t
rotl(x, s) == ((x * (2^(s % 8))) % 256) + (x \div (2^(8 - (s % 8))))

\* std::rotr on a uint8_t
rotr(x, s) == (x \div (2^(s % 8))) + ((x * (2^(8 - (s % 8)))) % 256)

\* Traits::eof(), the int that peek() and get() return at the end of the file
EOF == -1

\* conversion of the int returned by peek()/get() to uint8_t
ToUint8(c) == c % 256

-----------------------------------------------------------------------------
(* C strings: a string is the sequence of its characters; its NUL is implicit *)

NUL == "\\0"

CharAt(s, k) == IF k <= Len(s) THEN s[k] ELSE NUL

strnlen(s, maxlen) == IF Len(s) < maxlen THEN Len(s) ELSE maxlen

\* 0 when the first n characters (up to the NUL) agree, nonzero otherwise
strncmp(a, b, n) ==
  IF \A k \in 1..n :
       (\A j \in 1..(k-1) : CharAt(a, j) # NUL) => CharAt(a, k) = CharAt(b, k)
  THEN 0 ELSE 1

left == <<"l", "e", "f", "t">>
right == <<"r", "i", "g", "h", "t">>
left_size == Len(left)
right_size == Len(right)
max_size == IF left_size > right_size THEN left_size ELSE right_size

\* lines 44-86; its ERROR lines on std::cerr are followed by main's own
parse_instruction(instr) ==
  IF strnlen(instr, max_size + 1) > max_size
    THEN "nullopt"
  ELSE IF strnlen(instr, left_size) = left_size /\ strncmp(left, instr, left_size) = 0
    THEN "LEFT"
  ELSE IF strnlen(instr, right_size) = right_size /\ strncmp(right, instr, right_size) = 0
    THEN "RIGHT"
  ELSE "nullopt"

-----------------------------------------------------------------------------
(* std::ifstream: the get position and the state bits *)

Good(s) == ~s.eofbit /\ ~s.failbit

\* the sentry every input function constructs: a stream not good() gets failbit
Sentry(s) == IF Good(s) THEN s ELSE [s EXCEPT !.failbit = TRUE]

\* input.tellg(): <<position, stream>>
tellg(s) ==
  LET t == Sentry(s) IN <<IF t.failbit THEN -1 ELSE t.pos, t>>

\* the position a seek lands on, or failbit when the file has no such position
SeekTo(s, target) ==
  LET c == [s EXCEPT !.eofbit = FALSE]
      t == Sentry(c)
  IN  IF t.failbit THEN t
      ELSE IF target < 0 THEN [t EXCEPT !.failbit = TRUE]
      ELSE [t EXCEPT !.pos = target]

\* input.seekg(off, std::ios_base::end) on a file of `size` bytes
seekg_end(s, off, size) == SeekTo(s, size + off)

\* input.seekg(pos)
seekg(s, pos) == SeekTo(s, pos)

\* input.peek(): <<int, stream>>
peekConsumes(s, bytes) ==
  IF ~Good(s) THEN <<EOF, Sentry(s)>>
  ELSE IF s.pos < Len(bytes) THEN <<bytes[s.pos + 1], [s EXCEPT !.pos = s.pos + 1]>>
  ELSE <<EOF, [s EXCEPT !.eofbit = TRUE]>>
peek(s, bytes) ==
  IF ~Good(s) THEN <<EOF, Sentry(s)>>
  ELSE IF s.pos < Len(bytes) THEN <<bytes[s.pos + 1], s>>
  ELSE <<EOF, [s EXCEPT !.eofbit = TRUE]>>

\* input.get(): <<int, stream>>
get(s, bytes) ==
  IF ~Good(s) THEN <<EOF, Sentry(s)>>
  ELSE IF s.pos < Len(bytes) THEN <<bytes[s.pos + 1], [s EXCEPT !.pos = s.pos + 1]>>
  ELSE <<EOF, [s EXCEPT !.eofbit = TRUE, !.failbit = TRUE]>>

ClosedInput == [is_open |-> FALSE, pos |-> 0, eofbit |-> FALSE, failbit |-> FALSE]

-----------------------------------------------------------------------------
(* The file system *)

\* the value of a path that names no file: no sequence of bytes
NoFile == <<-1>>

\* "a" and "b" are files of a writable directory, "x" names a file of a
\* directory that does not exist
Paths == {"a", "b", "x"}
Creatable == {"a", "b"}

\* the bytes input files are made of: every bit the masks 0x01, 0x80, 0xA0 read
InputBytes == {\h00, \h01, \h20, \h80, \hFF}

RECURSIVE SeqsUpTo(_, _)
SeqsUpTo(S, n) ==
  IF n = 0 THEN {<<>>}
  ELSE LET shorter == SeqsUpTo(S, n - 1)
       IN  shorter \cup {Append(s, b) : s \in {t \in shorter : Len(t) = n - 1}, b \in S}

\* content of a file left over at the output path by an earlier run
OldContent == <<\h55>>

\* the bytes of the input file and of the output file of this run
InBytes == files[argv[2]]
OutBytes == files[argv[3]]

-----------------------------------------------------------------------------
(* The loop counter `int i` *)

\* the largest value of an int of w bits, 2^(w-1) - 1
IntMax == (2^(w - 2) - 1) * 2 + 1
IntMin == -IntMax - 1

\* x is the mathematical value of i + 1; it overflows when it is beyond IntMax.
\* Signed overflow is undefined: the build either keeps i in a narrow, w-bit
\* register, which wraps to IntMin, or in a wide register (the comparison with
\* end_position is on streamoff), which goes on counting.
\* The outcome is chosen at the first overflow and kept.
UbOutcomes(x) ==
  IF x <= IntMax \/ ub = "wide" THEN {ub}
  ELSE IF ub = "none" THEN {"narrow", "wide"}
  ELSE {ub}

IntResult(x, u) == IF x > IntMax /\ u = "narrow" THEN IntMin ELSE x

-----------------------------------------------------------------------------
(* rotate(): the byte computations *)

\* line 104 and 117: the bits kept of the peeked character
PeekedBit(peeked_char) == And8(peeked_char, \hA0)

\* line 119: the output character of the left rotation, from the rotated
\* input character and the masked peeked character
LeftCombineNoMask(character, peeked_bit) ==
  Or8(And8(\hFE, character), rotr(peeked_bit, 7))
LeftCombine(character, peeked_bit) ==
  Or8(And8(\hFE, character), And8(\h01, rotr(peeked_bit, 7)))

\* lines 131 and 138: the low bit of a character, saved for the next one
LowBitIsTopBit(c) == And8(c, \h80)
LowBit(c) == And8(c, \h01)

\* line 142: the output character of the right rotation, from the rotated
\* input character and the saved bit
RightCombineOwnBit(character, bit) ==
  Or8(And8(\h7F, character), And8(\h80, character))
RightCombine(character, bit) ==
  Or8(And8(\h7F, character), And8(\hA0, rotl(bit, 7)))

\* the loop condition `i < end_position` of both loops
LoopCondOffByOne(n) == n <= end_position
LoopCond(n) == n < end_position

\* the model follows a loop at most MaxOverrun iterations beyond end_position
Followed == iters < end_position + MaxOverrun

-----------------------------------------------------------------------------
(* rotate() *)

\* lines 93-98: the end of the file, then back to where the stream was
RotateEntry ==
  /\ pc = "rotate"
  /\ LET t0 == tellg(input)
         s1 == seekg_end(t0[2], 0, Len(InBytes))
         t1 == tellg(s1)
         s2 == seekg(t1[2], t0[1])
     IN  /\ start_position' = t0[1]
         /\ end_position' = t1[1]
         /\ input' = s2
  /\ rotate_calls' = rotate_calls + 1
  /\ iters' = 0
  /\ pc' = IF instruction = "LEFT" THEN "left_init" ELSE "right_init"
  /\ UNCHANGED <<argv, files, instruction, output, i, first_bit, saved_bit, w, ub,
                 exit_code, err, plan, orig, files0, done>>

\* lines 103-106: the first bit, saved for the last output character; i = 0
LeftInit ==
  /\ pc = "left_init"
  /\ LET p == peek(input, InBytes)
     IN  /\ first_bit' = PeekedBit(ToUint8(p[1]))
         /\ input' = p[2]
  /\ i' = 0
  /\ pc' = "left_loop"
  /\ UNCHANGED <<argv, files, instruction, output, start_position, end_position,
                 saved_bit, w, ub, exit_code, err, rotate_calls, iters, plan, orig, files0, done>>

\* lines 106-122: one iteration of the left loop
LeftStep ==
  /\ pc = "left_loop"
  /\ LoopCond(i)
  /\ Followed
  /\ \E u \in UbOutcomes(i + 1) :
       LET g == get(input, InBytes)
           character == rotl(ToUint8(g[1]), 1)
           next == IntResult(i + 1, u)
           p == IF LoopCond(next) THEN peek(g[2], InBytes) ELSE <<EOF, g[2]>>
           peeked_bit == IF LoopCond(next) THEN PeekedBit(ToUint8(p[1])) ELSE first_bit
       IN  /\ files' = [files EXCEPT ![argv[3]] =
                           Append(@, LeftCombine(character, peeked_bit))]
           /\ input' = p[2]
           /\ i' = next
           /\ ub' = u
  /\ iters' = iters + 1
  /\ UNCHANGED <<pc, argv, instruction, output, start_position, end_position,
                 first_bit, saved_bit, w, exit_code, err, rotate_calls, plan, orig, files0, done>>

\* lines 128-135: the last bit, needed for the first output character; i = 0
RightInit ==
  /\ pc = "right_init"
  /\ LET s1 == seekg_end(input, -1, Len(InBytes))
         p == peek(s1, InBytes)
     IN  /\ saved_bit' = LowBit(ToUint8(p[1]))
         /\ input' = seekg(p[2], start_position)
  /\ i' = 0
  /\ pc' = "right_loop"
  /\ UNCHANGED <<argv, files, instruction, output, start_position, end_position,
                 first_bit, w, ub, exit_code, err, rotate_calls, iters, plan, orig, files0, done>>

\* lines 135-146: one iteration of the right loop
RightStep ==
  /\ pc = "right_loop"
  /\ LoopCond(i)
  /\ Followed
  /\ \E u \in UbOutcomes(i + 1) :
       LET g == get(input, InBytes)
           next_bit == LowBit(ToUint8(g[1]))
           character == rotr(ToUint8(g[1]), 1)
       IN  /\ files' = [files EXCEPT ![argv[3]] =
                           Append(@, RightCombine(character, saved_bit))]
           /\ input' = g[2]
           /\ saved_bit' = next_bit
           /\ i' = IntResult(i + 1, u)
           /\ ub' = u
  /\ iters' = iters + 1
  /\ UNCHANGED <<pc, argv, instruction, output, start_position, end_position,
                 first_bit, w, exit_code, err, rotate_calls, plan, orig, files0, done>>

\* lines 106, 135, 148: the loop condition fails and rotate() returns
RotateReturn ==
  /\ pc \in {"left_loop", "right_loop"}
  /\ ~LoopCond(i)
  /\ pc' = "rotate_return"
  /\ done' = Append(done, instruction)
  /\ UNCHANGED <<argv, files, instruction, input, output, start_position,
                 end_position, i, first_bit, saved_bit, w, ub, exit_code, err,
                 rotate_calls, iters, plan, orig, files0>>

-----------------------------------------------------------------------------
(* main() *)

OpenedInput == [is_open |-> TRUE, pos |-> 0, eofbit |-> FALSE, failbit |-> FALSE]

\* the locals of rotate() and the bookkeeping, which main() itself never touches
rotate_locals == <<start_position, end_position, i, first_bit, saved_bit, w, ub,
                   rotate_calls, iters, plan, orig, files0, done>>

\* lines 152-156: the argument count
MainArgs ==
  /\ pc = "main"
  /\ IF Len(argv) + 1 # 4
       THEN pc' = "exit" /\ exit_code' = "EXIT_FAILURE"
       ELSE pc' = "parse" /\ exit_code' = exit_code
  /\ UNCHANGED <<argv, files, instruction, input, output, err, rotate_locals>>

\* lines 161-166: the direction
MainParse ==
  /\ pc = "parse"
  /\ instruction' = parse_instruction(argv[1])
  /\ IF instruction' = "nullopt"
       THEN /\ pc' = "exit"
            /\ exit_code' = "EXIT_FAILURE"
            /\ err' = "ERROR: Rotation instruction could not be parsed"
       ELSE /\ pc' = "paths"
            /\ UNCHANGED <<exit_code, err>>
  /\ UNCHANGED <<argv, files, input, output, rotate_locals>>

\* lines 168-172: the two paths must differ
MainPaths ==
  /\ pc = "paths"
  /\ IF argv[2] = argv[3]
       THEN /\ pc' = "exit"
            /\ exit_code' = "EXIT_FAILURE"
            /\ err' = "ERROR: There is no support to reading and writing to the same file"
       ELSE /\ pc' = "open_in"
            /\ UNCHANGED <<exit_code, err>>
  /\ UNCHANGED <<argv, files, instruction, input, output, rotate_locals>>

\* lines 175-182: open the input file
MainOpenInput ==
  /\ pc = "open_in"
  /\ IF files[argv[2]] = NoFile
       THEN /\ pc' = "exit"
            /\ exit_code' = "EXIT_FAILURE"
            /\ err' = "ERROR: Input file could not be opened"
            /\ input' = [ClosedInput EXCEPT !.failbit = TRUE]
       ELSE /\ pc' = "open_out"
            /\ input' = OpenedInput
            /\ UNCHANGED <<exit_code, err>>
  /\ UNCHANGED <<argv, files, instruction, output, rotate_locals>>

\* lines 185-192: open the output file, which creates or truncates it
MainOpenOutput ==
  /\ pc = "open_out"
  /\ IF argv[3] \notin Creatable
       THEN /\ pc' = "exit"
            /\ exit_code' = "EXIT_FAILURE"
            /\ err' = "ERROR: Output file could not be opened"
            /\ UNCHANGED <<files, output>>
       ELSE /\ pc' = "eof_check"
            /\ files' = [files EXCEPT ![argv[3]] = <<>>]
            /\ output' = [is_open |-> TRUE]
            /\ UNCHANGED <<exit_code, err>>
  /\ UNCHANGED <<argv, instruction, input, rotate_locals>>

\* lines 194-200: the empty-file test, then the call of rotate()
MainEofCheck ==
  /\ pc = "eof_check"
  /\ IF input.eofbit
       THEN pc' = "exit" /\ exit_code' = "EXIT_SUCCESS"
       ELSE pc' = "rotate" /\ exit_code' = exit_code
  /\ UNCHANGED <<argv, files, instruction, input, output, err, rotate_locals>>

\* lines 202-212: close both files and compare their sizes
MainCloseAndCompare ==
  /\ pc = "rotate_return"
  /\ input' = [input EXCEPT !.is_open = FALSE]
  /\ output' = [is_open |-> FALSE]
  /\ pc' = "exit"
  /\ IF Len(files[argv[2]]) # Len(files[argv[3]])
       THEN /\ exit_code' = "EXIT_FAILURE"
            /\ err' = "ERROR: Processing failed, output file is wrong size."
       ELSE /\ exit_code' = "EXIT_SUCCESS"
            /\ err' = err
  /\ UNCHANGED <<argv, files, instruction, rotate_locals>>

-----------------------------------------------------------------------------
(* The program, run once *)

Inputs == SeqsUpTo(InputBytes, MaxLen)

\* first arguments: the two directions, and strings near them
Tokens ==
  { left, right,
    <<"l", "e", "f", "t", "s">>,
    <<"l", "e", "f", "t", "x", "x">>,
    <<"r", "i", "g", "h", "t", "s">>,
    <<"r", "i", "g", "h">>,
    <<"l", "e", "f">>,
    <<"l", "i", "g", "h", "t">>,
    <<>> }

Argvs == {<<t, p, q>> : t \in Tokens, p \in Paths, q \in Paths} \cup {<<left, "a">>}

Init ==
  /\ pc = "main"
  /\ argv \in Argvs
  /\ \E b \in Inputs, old \in {NoFile, OldContent} :
       files = [p \in Paths |-> IF p = "a" THEN b ELSE IF p = "b" THEN old ELSE NoFile]
  /\ files0 = files
  /\ instruction = "nullopt"
  /\ input = ClosedInput
  /\ output = [is_open |-> FALSE]
  /\ start_position = 0
  /\ end_position = 0
  /\ i = 0
  /\ first_bit = 0
  /\ saved_bit = 0
  /\ w = IntBits
  /\ ub = "none"
  /\ exit_code = "running"
  /\ err = ""
  /\ rotate_calls = 0
  /\ iters = 0
  /\ plan = <<>>
  /\ orig = <<>>
  /\ done = <<>>

Rotate == RotateEntry \/ LeftInit \/ LeftStep \/ RightInit \/ RightStep \/ RotateReturn

Next ==
  \/ MainArgs \/ MainParse \/ MainPaths \/ MainOpenInput \/ MainOpenOutput
  \/ MainEofCheck \/ Rotate \/ MainCloseAndCompare

Spec == Init /\ [][Next]_vars

-----------------------------------------------------------------------------
(* rotate() called on its own: on open streams, the input stream at some    *)
(* position of a non-empty file                                             *)

Opposite(d) == IF d = "LEFT" THEN "RIGHT" ELSE "LEFT"

\* the state at a call rotate(input, output, d): input is file "a", read up to
\* position s; output is the new, empty file "b"
AtCall(bytes, d, s, width) ==
  /\ pc = "rotate"
  /\ argv = <<IF d = "LEFT" THEN left ELSE right, "a", "b">>
  /\ files = [p \in Paths |-> IF p = "a" THEN bytes ELSE IF p = "b" THEN <<>> ELSE NoFile]
  /\ files0 = files
  /\ instruction = d
  /\ input = [OpenedInput EXCEPT !.pos = s]
  /\ output = [is_open |-> TRUE]
  /\ start_position = 0
  /\ end_position = 0
  /\ i = 0
  /\ first_bit = 0
  /\ saved_bit = 0
  /\ w = width
  /\ ub = "none"
  /\ exit_code = "running"
  /\ err = ""
  /\ rotate_calls = 0
  /\ iters = 0
  /\ orig = bytes
  /\ done = <<>>

\* rotate() applied again, to the bytes the call before wrote (lines 88-148,
\* with the previous output file as the input file)
Reapply ==
  /\ pc = "rotate_return"
  /\ plan # <<>>
  /\ pc' = "rotate"
  /\ instruction' = Head(plan)
  /\ plan' = Tail(plan)
  /\ files' = [files EXCEPT ![argv[2]] = files[argv[3]], ![argv[3]] = <<>>]
  /\ input' = OpenedInput
  /\ UNCHANGED <<argv, output, start_position, end_position, i, first_bit, saved_bit,
                 w, ub, exit_code, err, rotate_calls, iters, orig, files0, done>>

\* the calls after the first: the opposite direction once, or the same
\* direction until the file's 8*N bits have gone round
Plans(d, n) == {<<Opposite(d)>>, [k \in 1..(8 * n - 1) |-> d]}

InitCompose ==
  \E b \in Inputs \ {<<>>}, d \in {"LEFT", "RIGHT"} :
    /\ AtCall(b, d, 0, IntBits)
    /\ plan \in Plans(d, Len(b))

NextCompose == Rotate \/ Reapply

SpecCompose == InitCompose /\ [][NextCompose]_vars

\* the stream anywhere in the file
InitSeek ==
  \E b \in Inputs \ {<<>>}, d \in {"LEFT", "RIGHT"} :
    \E s \in 0..(Len(b) - 1) :
      /\ AtCall(b, d, s, IntBits)
      /\ plan = <<>>

SpecSeek == InitSeek /\ [][Rotate]_vars

\* a build whose int has SmallIntBits bits, and files up to two bytes longer
\* than the largest int
WideBytes == {\h00, \h81}
WideInputs == SeqsUpTo(WideBytes, 2^(SmallIntBits - 1) + 1)

InitWidth ==
  \E b \in WideInputs \ {<<>>}, d \in {"LEFT", "RIGHT"} :
    /\ AtCall(b, d, 0, SmallIntBits)
    /\ plan = <<>>

SpecWidth == InitWidth /\ [][Rotate]_vars

-----------------------------------------------------------------------------
(* The byte-level contract of the specification, section 6, written with    *)
(* shifts on 8-bit unsigned values                                          *)

Shl8(x, n) == (x * (2^n)) % 256
Shr8(x, n) == x \div (2^n)

\* out[k] of the left rotation of b, k in 1..Len(b), next = (k mod N) + 1
LeftContract(b, k) ==
  Or8(And8(Or8(Shl8(b[k], 1), Shr8(b[k], 7)), \hFE), Shr8(b[(k % Len(b)) + 1], 7))

\* out[k] of the right rotation of b, prev = ((k - 2 + N) mod N) + 1
RightContract(b, k) ==
  Or8(And8(Or8(Shr8(b[k], 1), Shl8(b[k], 7)), \h7F),
      Shl8(And8(b[((k - 2 + Len(b)) % Len(b)) + 1], \h01), 7))

Contract(b, d, k) == IF d = "LEFT" THEN LeftContract(b, k) ELSE RightContract(b, k)

\* a run of main() with three arguments
ThreeArgs == Len(argv) = 3

\* rotate() is running or has returned, in the given direction
InOrAfterLoop(d) ==
  /\ instruction = d
  /\ pc \in {"left_loop", "right_loop", "rotate_return"}

Returned(d) == instruction = d /\ pc = "rotate_return"

-----------------------------------------------------------------------------
(* C1: left rotation. For an input of N >= 1 bytes read from its start,     *)
(* every byte rotate(in, LEFT) writes is                                    *)
(* out[i] = ((in[i] << 1 | in[i] >> 7) & 0xFE) | (in[(i+1) mod N] >> 7),    *)
(* and when it returns it has written all N of them.                        *)
C1_LeftRotation ==
  (InOrAfterLoop("LEFT") /\ Len(InBytes) >= 1)
    => /\ Len(OutBytes) <= Len(InBytes)
       /\ \A k \in 1..Len(OutBytes) : OutBytes[k] = LeftContract(InBytes, k)
       /\ pc = "rotate_return" => Len(OutBytes) = Len(InBytes)

\* a left rotation has returned whose second byte has bit 5 set and bit 7
\* clear, and whose last output byte took the first byte's top bit
C1_Witness ==
  /\ Returned("LEFT")
  /\ Len(InBytes) >= 2
  /\ InBytes[1] = \h80
  /\ InBytes[2] = \h20
  /\ OutBytes[1] = \h00

(* C2: right rotation. For an input of N >= 1 bytes read from its start,    *)
(* every byte rotate(in, RIGHT) writes is                                   *)
(* out[i] = ((in[i] >> 1 | in[i] << 7) & 0x7F) | ((in[(i-1+N) mod N] & 1) << 7), *)
(* and when it returns it has written all N of them.                        *)
C2_RightRotation ==
  (InOrAfterLoop("RIGHT") /\ Len(InBytes) >= 1)
    => /\ Len(OutBytes) <= Len(InBytes)
       /\ \A k \in 1..Len(OutBytes) : OutBytes[k] = RightContract(InBytes, k)
       /\ pc = "rotate_return" => Len(OutBytes) = Len(InBytes)

\* a right rotation has returned whose first output byte took its top bit
\* from the low bit of the last input byte
C2_Witness ==
  /\ Returned("RIGHT")
  /\ Len(InBytes) >= 2
  /\ InBytes[1] = \h00
  /\ InBytes[Len(InBytes)] = \h01
  /\ OutBytes[1] = \h80

(* C3: length preservation. When rotate() has returned, in either           *)
(* direction and for every input length N >= 0, the output file has N       *)
(* bytes, and main() never reports an output of the wrong size.             *)
C3_LengthPreserved ==
  /\ (ThreeArgs /\ rotate_calls > 0 /\ pc \in {"rotate_return", "exit"})
       => Len(OutBytes) = Len(InBytes)
  /\ err # "ERROR: Processing failed, output file is wrong size."

\* main() has compared the sizes after rotating a file of two bytes or more
C3_Witness ==
  /\ pc = "exit"
  /\ rotate_calls = 1
  /\ exit_code = "EXIT_SUCCESS"
  /\ Len(InBytes) >= 2
  /\ Len(OutBytes) = Len(InBytes)

(* C4: inverse. For every b of N >= 1 bytes, a left rotation followed by a   *)
(* right rotation of its output, or a right one followed by a left one,     *)
(* writes b again.                                                          *)
C4_Inverse ==
  (pc = "rotate_return" /\ done \in {<<"LEFT", "RIGHT">>, <<"RIGHT", "LEFT">>})
    => OutBytes = orig

\* left then right has returned on bytes whose first bit went round the end
\* of the file and came back
C4_Witness ==
  /\ pc = "rotate_return"
  /\ done = <<"LEFT", "RIGHT">>
  /\ Len(orig) >= 2
  /\ orig[1] = \h80
  /\ InBytes[Len(InBytes)] = \h01
  /\ OutBytes = orig

(* C5: full cycle. For every b of N >= 1 bytes, 8*N rotations in the same   *)
(* direction, each on the output of the one before, write b again.          *)
C5_FullCycle ==
  (/\ pc = "rotate_return"
   /\ Len(done) = 8 * Len(orig)
   /\ \A k \in 1..Len(done) : done[k] = done[1])
    => OutBytes = orig

\* 16 left rotations of two unlike bytes have returned
C5_Witness ==
  /\ pc = "rotate_return"
  /\ orig = <<\h01, \h20>>
  /\ Len(done) = 16
  /\ done[1] = "LEFT"
  /\ done[16] = "LEFT"
  /\ OutBytes = orig

(* C6: direction validation. A first argument other than exactly "left" or  *)
(* exactly "right" makes parse_instruction return no instruction and the    *)
(* program exit nonzero; "left" gives LEFT and "right" gives RIGHT.         *)
C6_ExactDirection ==
  (ThreeArgs /\ pc \notin {"main", "parse"})
    => /\ instruction = (IF argv[1] = left THEN "LEFT"
                         ELSE IF argv[1] = right THEN "RIGHT" ELSE "nullopt")
       /\ (argv[1] \notin {left, right}) => (pc = "exit" /\ exit_code = "EXIT_FAILURE")

(* C7: empty input. With an input file of length 0 the program writes an    *)
(* empty output file and exits with code 0, and rotate() is never called.   *)
C7_EmptyInputSkipsRotate ==
  (ThreeArgs /\ files0[argv[2]] = <<>>)
    => /\ rotate_calls = 0
       /\ (pc = "exit" /\ output.is_open)
            => (exit_code = "EXIT_SUCCESS" /\ OutBytes = <<>>)

(* C8: rejection before I/O. With an invalid direction or with identical    *)
(* paths the program exits nonzero, and on that run no file is opened: the  *)
(* file system stays as it was.                                             *)
C8_RejectBeforeIO ==
  (ThreeArgs /\ (argv[1] \notin {left, right} \/ argv[2] = argv[3]))
    => /\ ~input.is_open
       /\ ~output.is_open
       /\ files = files0
       /\ pc = "exit" => exit_code = "EXIT_FAILURE"

\* the rotation of the bytes from position s on, as the contract gives it
RECURSIVE ContractSeq(_, _, _)
ContractSeq(b, d, n) ==
  IF n = 0 THEN <<>> ELSE Append(ContractSeq(b, d, n - 1), Contract(b, d, n))

(* C9: the stream need not be at its start. Called with the stream at       *)
(* position s, 0 <= s < N, rotate() makes N - s iterations, reads no byte   *)
(* beyond the last, and writes the N - s bytes that are the rotation of     *)
(* input bytes s..N-1.                                                      *)
C9_RotatesFromPosition ==
  LET n == Len(InBytes)
      rest == SubSeq(InBytes, start_position + 1, n)
  IN  /\ (pc \in {"left_loop", "right_loop", "rotate_return"})
           => (iters <= n - start_position /\ ~input.eofbit /\ ~input.failbit)
      /\ (pc = "rotate_return")
           => /\ iters = n - start_position
              /\ OutBytes = ContractSeq(rest, instruction, Len(rest))

(* C10: the loop counter. In both loops i stays within the range of its     *)
(* w-bit signed type for every file length N, so the loop makes exactly N   *)
(* iterations and ends.                                                     *)
C10_CounterInRange ==
  /\ ub = "none"
  /\ i <= IntMax
  /\ i >= 0
  /\ iters <= Len(InBytes)
  /\ pc = "rotate_return" => iters = Len(InBytes)

====
